---------------------------- MODULE Spec2Model ----------------------------
(***************************************************************************)
(* The arc request pipeline and its analytics recorder.                    *)
(*                                                                         *)
(* One inbound request travels through a middleware chain (classifiers,    *)
(* recorder, authenticator, validators, terminal proxy handler).  The      *)
(* analytics recorder buffers the inner handler's response, copies it to   *)
(* the client and starts a background task (recordResponse) that builds    *)
(* an analytics record and sends it to the analytics store.                *)
(*                                                                         *)
(* Header values are sequences of one-character strings, so that           *)
(* url.QueryUnescape, strconv.ParseBool and strconv.Atoi are computed on   *)
(* the text the caller sent.                                               *)
(***************************************************************************)
EXTENDS Integers, Sequences, FiniteSets, TLC

VARIABLES
    sent,      \* the request as the caller sent it (route, headers, credential verdict, upstream answer)
    hdr,       \* r.Header: the X-Search-* values, rewritten in place by the recorder
    ctx,       \* the request context: category and indices keys
    pc,        \* where the request's handler stands
    at,        \* index of the chain stage that runs next (Len(chain)+1: the terminal handler)
    visited,   \* X-Search-* headers the recorder's range loop has already visited
    rec,       \* the recorder's locals: mode, searchID, docID
    w,         \* the real http.ResponseWriter
    rr,        \* the httptest.ResponseRecorder the recorder substitutes
    task,      \* the background recordResponse goroutine
    es,        \* the calls made to a.es.indexRecord, in order
    seen       \* observations: terminal calls, headers the terminal saw, rejecting gate,
               \* the stages in the order they ran, the recorder's calls of h and its go statements

\* The store plugin's index bootstrap (initPlugin), run against one cluster.
VARIABLES
    cluster,   \* the search cluster: whether the index exists, its node count, the create requests it got
    calls      \* the initPlugin calls: where each stands and what it returned

\* Two recorded requests that share one doc id, and the document the store keeps for it.
VARIABLES
    store,     \* the analytics store: doc id -> stored document
    jobs       \* the two background tasks: their inputs and the order their writes arrived in

request == <<sent, hdr, ctx, pc, at, visited, rec, w, rr, task, es, seen>>

aux == <<cluster, calls, store, jobs>>

vars == <<sent, hdr, ctx, pc, at, visited, rec, w, rr, task, es, seen, cluster, calls, store, jobs>>

-----------------------------------------------------------------------------
(* Bounds of the model *)

\* A request carries at most this many non-empty X-Search-* headers.
MaxHeaders == 3

\* Number of distinct ids uuid.New() can return in the model.
NumUUIDs == 2

-----------------------------------------------------------------------------
(* Header names and values *)

XSearchQuery         == "X-Search-Query"
XSearchID            == "X-Search-Id"
XSearchFilters       == "X-Search-Filters"
XSearchClick         == "X-Search-Click"
XSearchClickPosition == "X-Search-Click-Position"
XSearchConversion    == "X-Search-Conversion"
XSearchCustomEvent   == "X-Search-Custom-Event"

XSearchHeaders ==
    {XSearchQuery, XSearchID, XSearchFilters, XSearchClick,
     XSearchClickPosition, XSearchConversion, XSearchCustomEvent}

None == "none"

\* The non-empty values a caller sends in the model, per header.
HeaderValues(h) ==
    CASE h = XSearchQuery         -> { <<"f","o","o">>, <<"%","2","5","2","0">>, <<"%","z">> }
      [] h = XSearchID            -> { <<"a","b","c">>, <<"a","+","b">>, <<"%">> }
      [] h = XSearchFilters       -> { <<"k",":","v">> }
      [] h = XSearchClick         -> { <<"t","r","u","e">>, <<"m","a","y","b","e">> }
      [] h = XSearchClickPosition -> { <<"3">>, <<"x">>, <<"+","3">> }
      [] h = XSearchConversion    -> { <<"1">>, <<"n","o">> }
      [] h = XSearchCustomEvent   -> { <<"e",":","1">> }

\* Every header map over the headers hs with at most k non-empty values
\* (<< >>: the header is absent or empty, which r.Header.Get does not tell apart).
RECURSIVE MapsOn(_, _)
MapsOn(hs, k) ==
    IF hs = {} THEN { << >> }
    ELSE LET h == CHOOSE x \in hs : TRUE
         IN  { (h :> << >>) @@ m : m \in MapsOn(hs \ {h}, k) }
             \cup
             (IF k > 0
              THEN { (h :> v) @@ m : v \in HeaderValues(h), m \in MapsOn(hs \ {h}, k - 1) }
              ELSE {})

HeaderMaps == MapsOn(XSearchHeaders, MaxHeaders)

Digits == <<"1", "2", "3", "4", "5", "6", "7", "8", "9">>

\* The ids uuid.New().String() can return.
UUIDs == { <<"u", Digits[i]>> : i \in 1..NumUUIDs }

-----------------------------------------------------------------------------
(* url.QueryUnescape, strconv.ParseBool, strconv.Atoi *)

HexDigits == {"0","1","2","3","4","5","6","7","8","9","a","b","c","d","e","f"}

HexVal(c) ==
    CASE c = "0" -> 0  [] c = "1" -> 1  [] c = "2" -> 2  [] c = "3" -> 3
      [] c = "4" -> 4  [] c = "5" -> 5  [] c = "6" -> 6  [] c = "7" -> 7
      [] c = "8" -> 8  [] c = "9" -> 9  [] c = "a" -> 10 [] c = "b" -> 11
      [] c = "c" -> 12 [] c = "d" -> 13 [] c = "e" -> 14 [] c = "f" -> 15

\* The character with the given code; bytes the model never prints are "?".
Chr(n) ==
    CASE n = 32 -> " " [] n = 37 -> "%" [] n = 43 -> "+" [] OTHER -> "?"

\* url.QueryUnescape: "%XX" becomes the byte XX, "+" becomes a space, and a "%"
\* not followed by two hex digits is an error.
RECURSIVE QueryUnescape(_)
QueryUnescape(s) ==
    IF s = << >> THEN [ok |-> TRUE, val |-> << >>]
    ELSE IF Head(s) = "%"
         THEN IF Len(s) >= 3 /\ s[2] \in HexDigits /\ s[3] \in HexDigits
              THEN LET r == QueryUnescape(SubSeq(s, 4, Len(s)))
                   IN  [ok |-> r.ok,
                        val |-> IF r.ok THEN <<Chr(16 * HexVal(s[2]) + HexVal(s[3]))>> \o r.val
                                ELSE << >>]
              ELSE [ok |-> FALSE, val |-> << >>]
         ELSE LET r == QueryUnescape(Tail(s))
              IN  [ok |-> r.ok,
                   val |-> IF r.ok THEN <<IF Head(s) = "+" THEN " " ELSE Head(s)>> \o r.val
                           ELSE << >>]

\* strconv.ParseBool accepts exactly these spellings.
TrueWords  == { <<"1">>, <<"t">>, <<"T">>, <<"T","R","U","E">>, <<"t","r","u","e">>, <<"T","r","u","e">> }
FalseWords == { <<"0">>, <<"f">>, <<"F">>, <<"F","A","L","S","E">>, <<"f","a","l","s","e">>, <<"F","a","l","s","e">> }

ParseBool(s) ==
    IF s \in TrueWords THEN [ok |-> TRUE, val |-> TRUE]
    ELSE IF s \in FalseWords THEN [ok |-> TRUE, val |-> FALSE]
    ELSE [ok |-> FALSE, val |-> FALSE]

DecDigits == {"0","1","2","3","4","5","6","7","8","9"}

RECURSIVE DigitsValue(_, _)
DigitsValue(s, acc) ==
    IF s = << >> THEN acc ELSE DigitsValue(Tail(s), 10 * acc + HexVal(Head(s)))

\* strconv.Atoi: an optional sign followed by one or more decimal digits.
Atoi(s) ==
    LET signed == s # << >> /\ Head(s) \in {"+", "-"}
        body   == IF signed THEN Tail(s) ELSE s
    IN  IF body # << >> /\ \A i \in 1..Len(body) : body[i] \in DecDigits
        THEN [ok |-> TRUE,
              val |-> IF signed /\ Head(s) = "-" THEN 0 - DigitsValue(body, 0)
                      ELSE DigitsValue(body, 0)]
        ELSE [ok |-> FALSE, val |-> 0]

-----------------------------------------------------------------------------
(* Routes, chains and the context *)

Search    == "Search"
Docs      == "Docs"
Analytics == "Analytics"

\* The chain the analytics plugin wraps its own routes in.
list ==
    << "classifyCategory", "classify.Op", "classify.Indices", "logs.Recorder",
       "auth.BasicAuth", "validate.Indices", "validate.Operation", "validate.Category" >>

\* The chain of a search-data route: the recorder sits inside the classifiers
\* and outside the authenticator and the validators.
CanonicalChain ==
    << "classify.Category", "classify.Op", "classify.Indices", "analytics.Recorder",
       "auth.BasicAuth", "validate.Indices", "validate.Operation", "validate.Category" >>

Gates == {"auth.BasicAuth", "validate.Indices", "validate.Operation", "validate.Category"}

\* The routes of the model.  The last two mount the exported Recorder()
\* middleware without the classifiers its context lookups rely on.
Routes ==
    { "GET /twitter/_search", "POST /_msearch", "POST /twitter/_doc", "POST /_analytics",
      "recorder only", "category and recorder only" }

Chain(route) ==
    CASE route = "POST /_analytics"            -> list
      [] route = "recorder only"               -> << "analytics.Recorder" >>
      [] route = "category and recorder only"  -> << "classify.Category", "analytics.Recorder" >>
      [] OTHER                                 -> CanonicalChain

\* The category classifier's route table.
RouteCategory(route) ==
    CASE route = "POST /twitter/_doc" -> Docs
      [] route = "POST /_analytics"   -> Analytics
      [] OTHER                        -> Search

\* The operation classifier: POST to _search/_msearch is a read.
RouteOp(route) ==
    IF route = "POST /twitter/_doc" \/ route = "POST /_analytics" THEN "Write" ELSE "Read"

\* The indices classifier: the first path segment, or the _msearch body's header lines.
RouteIndices(route) ==
    CASE route = "GET /twitter/_search" -> << "twitter" >>
      [] route = "POST /twitter/_doc"   -> << "twitter" >>
      [] route = "POST /_msearch"       -> << "a", "b" >>
      [] OTHER                          -> << >>

\* strings.Contains(r.RequestURI, "_msearch")
IsMSearch(route) == route = "POST /_msearch"

-----------------------------------------------------------------------------
(* Responses and bodies *)

ContentType == "Content-Type"

EmptyBody   == [kind |-> "empty",   doc |-> << >>]
GarbageBody == [kind |-> "garbage", doc |-> << >>]
JSON(d)     == [kind |-> "json",    doc |-> d]

Hit(id) == ("_id" :> id) @@ ("_type" :> "_doc") @@ ("_source" :> ("title" :> id))

SearchDoc(took, total, hits) ==
    ("took" :> took) @@ ("hits" :> (("total" :> total) @@ ("hits" :> hits)))

\* Number of hits of the largest answer of the model, more than are recorded.
ManyHits == 12

\* The ids of the hits of an answer with n hits.
HitIDs == << "1", "2", "3", "4", "5", "6", "7", "8", "9", "10", "11", "12", "13", "14" >>

\* What the search backend answers through the terminal proxy handler.
Upstreams ==
    { [code |-> 200, hdrs |-> (ContentType :> "application/json"),
       body |-> JSON(SearchDoc(5, 2, << Hit("1"), Hit("2") >>))],
      [code |-> 200, hdrs |-> (ContentType :> "application/json"),
       body |-> JSON(SearchDoc(6, 40, [i \in 1..ManyHits |-> Hit(HitIDs[i])]))],
      [code |-> 200, hdrs |-> (ContentType :> "application/json"),
       body |-> JSON("responses" :> << SearchDoc(7, 1, << Hit("3") >>), SearchDoc(9, 0, << >>) >>)],
      [code |-> 200, hdrs |-> (ContentType :> "application/json"),
       body |-> JSON("responses" :> << >>)],
      [code |-> 502, hdrs |-> (ContentType :> "text/html") @@ (XSearchID :> <<"u","p">>),
       body |-> GarbageBody] }

\* A response writer nothing has been written to.
NewWriter == [code |-> 0, hdrs |-> << >>, body |-> EmptyBody, complete |-> FALSE]

\* httptest.NewRecorder(): Code is 200 until the handler writes a header.
NewRecorder == [code |-> 200, hdrs |-> << >>, body |-> EmptyBody, complete |-> FALSE]

\* util.WriteBackError: a short JSON error with the status code.
WriteBackError(code) ==
    [code |-> code, hdrs |-> (ContentType :> "application/json"),
     body |-> JSON(("error" :> "rejected") @@ ("code" :> code)), complete |-> TRUE]

\* A handler writing the response resp in full to a writer.
Serve(resp) == [code |-> resp.code, hdrs |-> resp.hdrs, body |-> resp.body, complete |-> TRUE]

\* The zero value of searchResponse.
ZeroResponse == [took |-> 0, total |-> 0, hits |-> << >>]

\* No recordResponse goroutine has been started.
IdleTask ==
    [pc |-> "none", docID |-> << >>, searchID |-> << >>, resp |-> ZeroResponse, record |-> << >>]

-----------------------------------------------------------------------------
(* The request *)

\* The requests of the model: a route, the X-Search-* headers, the first gate
\* that rejects the caller's credentials (None: all pass) and the upstream's
\* answer (one fixed answer when a gate rejects, since upstream is not reached).
Requests ==
    { [route |-> r, hdr |-> m, reject |-> g, up |-> u] :
        r \in Routes, m \in HeaderMaps, g \in Gates \cup {None}, u \in Upstreams }

Init ==
    /\ sent \in { q \in Requests :
                    /\ q.reject # None =>
                         /\ q.up.code = 502
                         /\ \E i \in 1..Len(Chain(q.route)) : Chain(q.route)[i] = q.reject }
    /\ hdr = sent.hdr
    /\ ctx = [category |-> None, op |-> None, indices |-> None, cancelled |-> FALSE]
    /\ pc = "stage"
    /\ at = 1
    /\ visited = {}
    /\ rec = [mode |-> "idle", searchID |-> << >>, docID |-> << >>]
    /\ w = NewWriter
    /\ rr = NewWriter
    /\ task = IdleTask
    /\ es = << >>
    /\ seen = [terminal |-> 0, hdr |-> << >>, rejectedBy |-> None, inner |-> NewWriter,
               ran |-> << >>, innerCalls |-> 0, spawns |-> 0]
    /\ cluster = << >> /\ calls = << >> /\ store = << >> /\ jobs = << >>

\* A chain applied last-in-first-out: the last element outermost.
StageLifo ==
    IF at <= Len(Chain(sent.route))
    THEN Chain(sent.route)[Len(Chain(sent.route)) + 1 - at]
    ELSE "terminal"

\* The stage that runs next: the chain is applied first-in-first-out, its first
\* element outermost, the wrapped handler innermost.
Stage == IF at <= Len(Chain(sent.route)) THEN Chain(sent.route)[at] ELSE "terminal"

-----------------------------------------------------------------------------
(* The middlewares other than the recorder *)

\* The writer the handlers inside the recorder write to: the substituted
\* collector on the recording path, the real writer otherwise.
WriteInner(resp) ==
    /\ IF rec.mode = "recording"
       THEN rr' = resp /\ UNCHANGED w
       ELSE w' = resp /\ UNCHANGED rr

\* A recorder that starts the background task before it writes to the client.
RecorderOrderSpawnFirst == << "rec_spawn", "rec_copy", "rec_write" >>

\* Control returns up the chain; only the recorder has work left after its
\* inner handler: copy the headers, write status and body, start the task.
RecorderOrder == << "rec_copy", "rec_write", "rec_spawn" >>

AfterStep(step) ==
    LET i == CHOOSE j \in 1..Len(RecorderOrder) : RecorderOrder[j] = step
    IN  IF i < Len(RecorderOrder) THEN RecorderOrder[i + 1] ELSE "done"

Return == pc' = IF rec.mode = "recording" THEN RecorderOrder[1] ELSE "done"

\* The analytics plugin's own category classifier: every request is Analytics.
classifyCategory ==
    /\ pc = "stage" /\ Stage = "classifyCategory"
    /\ seen' = [seen EXCEPT !.ran = Append(@, Stage)]
    /\ ctx' = [ctx EXCEPT !.category = Analytics]
    /\ at' = at + 1
    /\ UNCHANGED <<sent, hdr, pc, visited, rec, w, rr, task, es>>
    /\ UNCHANGED aux

\* The route-table category classifier of the search-data routes.
ClassifyCategory ==
    /\ pc = "stage" /\ Stage = "classify.Category"
    /\ seen' = [seen EXCEPT !.ran = Append(@, Stage)]
    /\ ctx' = [ctx EXCEPT !.category = RouteCategory(sent.route)]
    /\ at' = at + 1
    /\ UNCHANGED <<sent, hdr, pc, visited, rec, w, rr, task, es>>
    /\ UNCHANGED aux

ClassifyOp ==
    /\ pc = "stage" /\ Stage = "classify.Op"
    /\ seen' = [seen EXCEPT !.ran = Append(@, Stage)]
    /\ ctx' = [ctx EXCEPT !.op = RouteOp(sent.route)]
    /\ at' = at + 1
    /\ UNCHANGED <<sent, hdr, pc, visited, rec, w, rr, task, es>>
    /\ UNCHANGED aux

ClassifyIndices ==
    /\ pc = "stage" /\ Stage = "classify.Indices"
    /\ seen' = [seen EXCEPT !.ran = Append(@, Stage)]
    /\ ctx' = [ctx EXCEPT !.indices = RouteIndices(sent.route)]
    /\ at' = at + 1
    /\ UNCHANGED <<sent, hdr, pc, visited, rec, w, rr, task, es>>
    /\ UNCHANGED aux

\* The request-log recorder of the analytics plugin's chain: it calls its inner
\* handler and touches neither the response nor the analytics store.
LogsRecorder ==
    /\ pc = "stage" /\ Stage = "logs.Recorder"
    /\ seen' = [seen EXCEPT !.ran = Append(@, Stage)]
    /\ at' = at + 1
    /\ UNCHANGED <<sent, hdr, ctx, pc, visited, rec, w, rr, task, es>>
    /\ UNCHANGED aux

\* The authenticator and the three validators: on failure the gate writes a
\* 401 and does not call its inner handler.
Gate(g) ==
    /\ pc = "stage" /\ Stage = g
    /\ \/ /\ sent.reject = g
          /\ WriteInner(WriteBackError(401))
          /\ seen' = [seen EXCEPT !.rejectedBy = g, !.inner = WriteBackError(401),
                               !.ran = Append(@, g)]
          /\ Return
          /\ UNCHANGED at
       \/ /\ sent.reject # g
          /\ seen' = [seen EXCEPT !.ran = Append(@, g)]
          /\ at' = at + 1
          /\ UNCHANGED <<pc, w, rr>>
    /\ UNCHANGED <<sent, hdr, ctx, visited, rec, task, es>>
    /\ UNCHANGED aux

\* The terminal proxy handler: forwards to the search backend and writes its answer.
Terminal ==
    /\ pc = "stage" /\ Stage = "terminal"
    /\ WriteInner(Serve(sent.up))
    /\ seen' = [seen EXCEPT !.terminal = @ + 1, !.hdr = hdr, !.inner = Serve(sent.up),
                         !.ran = Append(@, "terminal")]
    /\ Return
    /\ UNCHANGED <<sent, hdr, ctx, at, visited, rec, task, es>>
    /\ UNCHANGED aux

-----------------------------------------------------------------------------
(* Analytics.recorder *)

\* A lookup that reports no error for a context without a category.
FromContextAlwaysOK(c) == [ok |-> TRUE, val |-> c.category]

\* category.FromContext: an error when the context holds no category.
FromContext(c) == [ok |-> c.category # None, val |-> c.category]

\* A pass-through decision with && in place of ||.
IsPassThroughAnd(cat, searchQuery, searchID) ==
    cat # Search /\ (searchQuery = << >> /\ searchID = << >>)

\* A recorder that never passes a request through.
IsPassThroughNever(cat, searchQuery, searchID) == FALSE

\* The pass-through decision.
IsPassThrough(cat, searchQuery, searchID) ==
    cat # Search \/ (searchQuery = << >> /\ searchID = << >>)

\* A doc id that is always minted, the caller's X-Search-Id ignored.
NewDocIDAlwaysFresh(searchID, fresh) == fresh

\* docID := searchID; if docID == "" { docID = uuid.New().String() }
NewDocID(searchID, fresh) == IF searchID = << >> THEN fresh ELSE searchID

\* A copy that sets X-Search-Id and forgets the collected headers.
CopyHeadersIDOnly(wh, rh, docID) == (XSearchID :> docID) @@ wh

\* for k, v := range respRecorder.Header() { w.Header()[k] = v }; w.Header().Set(XSearchID, docID)
CopyHeaders(wh, rh, docID) == (XSearchID :> docID) @@ rh @@ wh

\* The recorder reads the category; without one it answers 500 and returns.
RecorderEnter ==
    /\ pc = "stage" /\ Stage = "analytics.Recorder"
    /\ IF FromContext(ctx).ok
       THEN /\ pc' = "rec_loop"
            /\ rec' = [rec EXCEPT !.mode = "loop"]
            /\ UNCHANGED w
       ELSE /\ pc' = "done"
            /\ rec' = [rec EXCEPT !.mode = "noCategory"]
            /\ w' = WriteBackError(500)
    /\ seen' = [seen EXCEPT !.ran = Append(@, Stage)]
    /\ UNCHANGED <<sent, hdr, ctx, at, visited, rr, task, es>>
    /\ UNCHANGED aux

\* One iteration of the range loop over r.Header, which visits the headers in
\* an order Go does not fix.  A value that does not unescape ends the loop:
\* the inner handler is called with the headers as they are at that moment.
RecorderUnescape ==
    /\ pc = "rec_loop"
    /\ \E h \in XSearchHeaders \ visited :
         /\ hdr[h] # << >>
         /\ LET parsed == QueryUnescape(hdr[h])
            IN  IF parsed.ok
                THEN /\ hdr' = [hdr EXCEPT ![h] = parsed.val]
                     /\ visited' = visited \cup {h}
                     /\ UNCHANGED <<pc, at, rec, seen>>
                ELSE /\ rec' = [rec EXCEPT !.mode = "decodeError"]
                     /\ seen' = [seen EXCEPT !.innerCalls = @ + 1]
                     /\ pc' = "stage"
                     /\ at' = at + 1
                     /\ UNCHANGED <<hdr, visited>>
    /\ UNCHANGED <<sent, ctx, w, rr, task, es>>
    /\ UNCHANGED aux

\* After the loop: pass through, or pick the doc id and substitute the collector.
RecorderDecide ==
    /\ pc = "rec_loop"
    /\ \A h \in XSearchHeaders \ visited : hdr[h] = << >>
    /\ LET searchQuery == hdr[XSearchQuery]
           searchID    == hdr[XSearchID]
       IN  IF IsPassThrough(FromContext(ctx).val, searchQuery, searchID)
           THEN /\ rec' = [rec EXCEPT !.mode = "pass"]
                /\ UNCHANGED rr
           ELSE \E fresh \in UUIDs :
                /\ rec' = [mode |-> "recording", searchID |-> searchID,
                           docID |-> NewDocID(searchID, fresh)]
                /\ rr' = NewRecorder
    /\ seen' = [seen EXCEPT !.innerCalls = @ + 1]
    /\ pc' = "stage"
    /\ at' = at + 1
    /\ UNCHANGED <<sent, hdr, ctx, visited, w, task, es>>
    /\ UNCHANGED aux

\* Copy the collected headers to the real writer and set X-Search-Id.
RecorderCopy ==
    /\ pc = "rec_copy"
    /\ w' = [w EXCEPT !.hdrs = CopyHeaders(w.hdrs, rr.hdrs, rec.docID)]
    /\ pc' = AfterStep("rec_copy")
    /\ UNCHANGED <<sent, hdr, ctx, at, visited, rec, rr, task, es, seen>>
    /\ UNCHANGED aux

\* w.WriteHeader(respRecorder.Code); w.Write(respRecorder.Body.Bytes())
RecorderWrite ==
    /\ pc = "rec_write"
    /\ w' = [w EXCEPT !.code = rr.code, !.body = rr.body, !.complete = TRUE]
    /\ pc' = AfterStep("rec_write")
    /\ UNCHANGED <<sent, hdr, ctx, at, visited, rec, rr, task, es, seen>>
    /\ UNCHANGED aux

\* go a.recordResponse(docID, searchID, respRecorder, r)
RecorderSpawn ==
    /\ pc = "rec_spawn"
    /\ task' = [IdleTask EXCEPT !.pc = "started", !.docID = rec.docID, !.searchID = rec.searchID]
    /\ seen' = [seen EXCEPT !.spawns = @ + 1]
    /\ pc' = AfterStep("rec_spawn")
    /\ UNCHANGED <<sent, hdr, ctx, at, visited, rec, w, rr, es>>
    /\ UNCHANGED aux

-----------------------------------------------------------------------------
(* Analytics.recordResponse *)

\* bytes.Replace of "_source", "_type" and "_id" by the unprefixed names, as it
\* acts on a field name.
StripKey(k) ==
    CASE k = "_source" -> "source" [] k = "_type" -> "type" [] k = "_id" -> "id" [] OTHER -> k

ReplaceFields(f) ==
    [k \in { StripKey(j) : j \in DOMAIN f } |-> f[CHOOSE j \in DOMAIN f : StripKey(j) = k]]

Field(f, k, zero) == IF k \in DOMAIN f THEN f[k] ELSE zero

\* json.Unmarshal of one hit: keys the struct does not name are dropped,
\* keys the document lacks leave the zero value.
DecodeHit(h) ==
    LET f == ReplaceFields(h)
    IN  [id |-> Field(f, "id", ""), type |-> Field(f, "type", ""),
         source |-> Field(f, "source", << >>)]

\* json.Unmarshal of a document into searchResponse.
DecodeResponse(d) ==
    LET hits == Field(d, "hits", << >>)
        list0 == Field(hits, "hits", << >>)
    IN  [took  |-> Field(d, "took", 0),
         total |-> Field(hits, "total", 0),
         hits  |-> [i \in 1..Len(list0) |-> DecodeHit(list0[i])]]

\* A parse that keeps the last response of an _msearch list.
ParseBodyLast(body, msearch) ==
    IF body.kind # "json" THEN [ok |-> FALSE, resp |-> ZeroResponse]
    ELSE IF msearch
         THEN LET responses == Field(body.doc, "responses", << >>)
              IN  [ok |-> TRUE,
                   resp |-> IF Len(responses) > 0 THEN DecodeResponse(responses[Len(responses)])
                            ELSE ZeroResponse]
         ELSE [ok |-> TRUE, resp |-> DecodeResponse(body.doc)]

\* The parse of the buffered body: the first response of the list when the
\* URL contains _msearch, the single response otherwise.
ParseBody(body, msearch) ==
    IF body.kind # "json" THEN [ok |-> FALSE, resp |-> ZeroResponse]
    ELSE IF msearch
         THEN LET responses == Field(body.doc, "responses", << >>)
              IN  [ok |-> TRUE,
                   resp |-> IF Len(responses) > 0 THEN DecodeResponse(responses[1])
                            ELSE ZeroResponse]
         ELSE [ok |-> TRUE, resp |-> DecodeResponse(body.doc)]

\* Record up to the top 10 hits.
TopHits == 10

Min(a, b) == IF a < b THEN a ELSE b

\* hit["source"] = string(raw): the marshalled source object.
Marshal(source) == [json |-> source]

\* A hit list that is not cut at the top 10.
HitsInResponseAll(resp) ==
    [i \in 1..Len(resp.hits) |->
        [id |-> resp.hits[i].id, type |-> resp.hits[i].type,
         source |-> Marshal(resp.hits[i].source)]]

HitsInResponse(resp) ==
    [i \in 1..Min(TopHits, Len(resp.hits)) |->
        [id |-> resp.hits[i].id, type |-> resp.hits[i].type,
         source |-> Marshal(resp.hits[i].source)]]

\* Position of the first c in s, 0 when there is none.
IndexOf(s, c) ==
    IF \E i \in 1..Len(s) : s[i] = c
    THEN CHOOSE i \in 1..Len(s) : s[i] = c /\ \A j \in 1..(i - 1) : s[j] # c
    ELSE 0

RECURSIVE Split(_, _)
Split(s, c) ==
    LET i == IndexOf(s, c)
    IN  IF i = 0 THEN << s >>
        ELSE << SubSeq(s, 1, i - 1) >> \o Split(SubSeq(s, i + 1, Len(s)), c)

\* parse: the comma-separated k:v pairs of a header value.
RECURSIVE PairsOf(_)
PairsOf(tokens) ==
    IF tokens = << >> THEN << >>
    ELSE LET kv == Split(Head(tokens), ":")
         IN  (IF Len(kv) = 2 THEN << [key |-> kv[1], value |-> kv[2]] >> ELSE << >>)
             \o PairsOf(Tail(tokens))

parse(s) == IF s = << >> THEN << >> ELSE PairsOf(Split(s, ","))

With(cond, k, v) == IF cond THEN (k :> v) ELSE << >>

Now == "now"

\* New-search fields whose search_query is read from the wrong header.
SearchFieldsWrongHeader(searchID, resp, indices, h) ==
    IF searchID = << >>
    THEN ("indices" :> indices) @@ ("search_query" :> h[XSearchFilters])
         @@ ("hits_in_response" :> HitsInResponse(resp)) @@ ("total_hits" :> resp.total)
         @@ ("timestamp" :> Now)
         @@ With(Len(parse(h[XSearchFilters])) > 0, "search_filters", parse(h[XSearchFilters]))
    ELSE << >>

\* The fields of a new search, written only when searchID is empty.
SearchFields(searchID, resp, indices, h) ==
    IF searchID = << >>
    THEN ("indices" :> indices) @@ ("search_query" :> h[XSearchQuery])
         @@ ("hits_in_response" :> HitsInResponse(resp)) @@ ("total_hits" :> resp.total)
         @@ ("timestamp" :> Now)
         @@ With(Len(parse(h[XSearchFilters])) > 0, "search_filters", parse(h[XSearchFilters]))
    ELSE << >>

\* Follow-up fields that leave the click position out.
EventFieldsNoPosition(h) ==
    With(h[XSearchClick] # << >> /\ ParseBool(h[XSearchClick]).ok,
         "click", ParseBool(h[XSearchClick]).val)
    @@ With(h[XSearchConversion] # << >> /\ ParseBool(h[XSearchConversion]).ok,
            "conversion", ParseBool(h[XSearchConversion]).val)
    @@ With(Len(parse(h[XSearchCustomEvent])) > 0, "custom_events", parse(h[XSearchCustomEvent]))

\* Follow-up fields that store click whenever the header is non-empty.
EventFieldsUnparsedClick(h) ==
    With(h[XSearchClick] # << >>, "click", ParseBool(h[XSearchClick]).val)
    @@ With(h[XSearchClickPosition] # << >> /\ Atoi(h[XSearchClickPosition]).ok,
            "click_position", Atoi(h[XSearchClickPosition]).val)
    @@ With(h[XSearchConversion] # << >> /\ ParseBool(h[XSearchConversion]).ok,
            "conversion", ParseBool(h[XSearchConversion]).val)
    @@ With(Len(parse(h[XSearchCustomEvent])) > 0, "custom_events", parse(h[XSearchCustomEvent]))

\* The fields parsed from the follow-up headers.
EventFields(h) ==
    With(h[XSearchClick] # << >> /\ ParseBool(h[XSearchClick]).ok,
         "click", ParseBool(h[XSearchClick]).val)
    @@ With(h[XSearchClickPosition] # << >> /\ Atoi(h[XSearchClickPosition]).ok,
            "click_position", Atoi(h[XSearchClickPosition]).val)
    @@ With(h[XSearchConversion] # << >> /\ ParseBool(h[XSearchConversion]).ok,
            "conversion", ParseBool(h[XSearchConversion]).val)
    @@ With(Len(parse(h[XSearchCustomEvent])) > 0, "custom_events", parse(h[XSearchCustomEvent]))

\* The record recordResponse assembles; locOK and countryOK tell whether the
\* geo-IP lookups succeeded.
BuildRecord(searchID, resp, indices, h, locOK, countryOK) ==
    ("took" :> resp.took)
    @@ SearchFields(searchID, resp, indices, h)
    @@ ("ip" :> "198.51.100.7")
    @@ With(locOK, "location", "48.85,2.35")
    @@ With(countryOK, "country", "FR")
    @@ EventFields(h)

\* Read the collected body, rename the fields and decode it; a body that does
\* not decode ends the task.
TaskParse ==
    /\ task.pc = "started"
    /\ LET p == ParseBody(rr.body, IsMSearch(sent.route))
       IN  task' = IF p.ok THEN [task EXCEPT !.pc = "parsed", !.resp = p.resp]
                   ELSE [task EXCEPT !.pc = "aborted"]
    /\ UNCHANGED <<sent, hdr, ctx, pc, at, visited, rec, w, rr, es, seen>>
    /\ UNCHANGED aux

\* A lookup that reports no error for a context without an IndexSet.
IndexFromContextAlwaysOK(c) == [ok |-> TRUE, val |-> c.indices]

\* index.FromContext: an error when the context holds no IndexSet.
IndexFromContext(c) == [ok |-> c.indices # None, val |-> c.indices]

\* Assemble the record; a new search whose context holds no indices ends the task.
TaskBuild ==
    /\ task.pc = "parsed"
    /\ IF task.searchID = << >> /\ ~IndexFromContext(ctx).ok
       THEN task' = [task EXCEPT !.pc = "aborted"]
       ELSE \E locOK \in BOOLEAN, countryOK \in BOOLEAN :
              task' = [task EXCEPT !.pc = "built",
                         !.record = BuildRecord(task.searchID, task.resp, ctx.indices,
                                                hdr, locOK, countryOK)]
    /\ UNCHANGED <<sent, hdr, ctx, pc, at, visited, rec, w, rr, es, seen>>
    /\ UNCHANGED aux

\* context.Background(): a context that is never cancelled.
Background == [cancelled |-> FALSE]

\* A store write issued with the request's own context.
IndexContextOfRequest(c) == [cancelled |-> c.cancelled]

\* The context the store write is issued with, given the request's context c.
IndexContext(c) == Background

\* a.es.indexRecord(context.Background(), docID, record): the store client
\* sends the write unless the context it is given is cancelled, in which case
\* it logs the error and nothing is written.
TaskIndex ==
    /\ task.pc = "built"
    /\ es' = IF IndexContext(ctx).cancelled THEN es
             ELSE Append(es, [id |-> task.docID, rec |-> task.record,
                              ctx |-> IndexContext(ctx), requestOver |-> ctx.cancelled])
    /\ task' = [task EXCEPT !.pc = "done"]
    /\ UNCHANGED <<sent, hdr, ctx, pc, at, visited, rec, w, rr, seen>>
    /\ UNCHANGED aux

\* The inbound request is over once the task has been started: the handler
\* returns or the client goes away, and the server cancels r.Context().
RequestOver ==
    /\ task.pc # "none"
    /\ ~ctx.cancelled
    /\ ctx' = [ctx EXCEPT !.cancelled = TRUE]
    /\ UNCHANGED <<sent, hdr, pc, at, visited, rec, w, rr, task, es, seen>>
    /\ UNCHANGED aux

-----------------------------------------------------------------------------
Next ==
    \/ classifyCategory
    \/ ClassifyCategory
    \/ ClassifyOp
    \/ ClassifyIndices
    \/ LogsRecorder
    \/ \E g \in Gates : Gate(g)
    \/ Terminal
    \/ RecorderEnter
    \/ RecorderUnescape
    \/ RecorderDecide
    \/ RecorderCopy
    \/ RecorderWrite
    \/ RecorderSpawn
    \/ TaskParse
    \/ TaskBuild
    \/ TaskIndex
    \/ RequestOver

Spec == Init /\ [][Next]_vars

-----------------------------------------------------------------------------
(* Vocabulary of the properties *)

\* The handler has returned and no background task is still running.
AllDone == pc = "done" /\ task.pc \in {"none", "done", "aborted"}

\* Position of the analytics recorder in the request's chain, 0 when it has none.
RecorderPos ==
    LET c == Chain(sent.route)
    IN  IF \E i \in 1..Len(c) : c[i] = "analytics.Recorder"
        THEN CHOOSE i \in 1..Len(c) : c[i] = "analytics.Recorder"
        ELSE 0

\* The analytics recorder has been entered.
RecorderEntered == RecorderPos > 0 /\ (at > RecorderPos \/ pc # "stage")

\* Every X-Search-* value the caller sent unescapes without error.
AllDecodable == \A h \in XSearchHeaders : QueryUnescape(sent.hdr[h]).ok

\* The once-unescaped form of the value the caller sent in header h.
Unescaped(h) == QueryUnescape(sent.hdr[h]).val

InitialSearchKeys == {"indices", "search_query", "hits_in_response", "total_hits", "timestamp"}

-----------------------------------------------------------------------------
(* C1 *)

\* C1: a request rejected by a gate never reaches the terminal handler.  When a
\* gate of the chain (authenticator, indices/operation/category validator) has
\* rejected the request, or the recorder was entered with no Category in the
\* context, the terminal handler has not been and is never invoked, and the
\* rejecting middleware has written an error response (401 from a gate, 500
\* from the recorder, after which the handler is done).
C1_RejectedNeverReachesTerminal ==
    /\ seen.rejectedBy # None =>
         /\ seen.terminal = 0
         /\ seen.inner = WriteBackError(401)
    /\ (RecorderEntered /\ ctx.category = None) =>
         /\ seen.terminal = 0
         /\ pc = "done"
         /\ w = WriteBackError(500)

\* C1 witness: the recorder, mounted without a category classifier, has answered 500.
C1_Witness ==
    /\ pc = "done" /\ RecorderEntered /\ ctx.category = None
    /\ w.code = 500 /\ seen.terminal = 0

-----------------------------------------------------------------------------
(* C2 *)

\* C2 (as claimed): a Search request with a non-empty X-Search-Query that runs
\* through the canonical chain and is rejected with 401 by the authenticator or
\* a validator never has an analytics record sent to the store.
C2_RejectedSearchLeavesNoRecord ==
    (/\ Chain(sent.route) = CanonicalChain
     /\ ctx.category = Search
     /\ sent.hdr[XSearchQuery] # << >>
     /\ seen.rejectedBy # None)
    => es = << >>

-----------------------------------------------------------------------------
(* C3 *)

\* C3: the recorder is transparent on the pass-through path.  Once the recorder
\* is entered with a Category that is not Search, or with X-Search-Query and
\* X-Search-Id both empty, the real response is at every moment exactly what
\* the inner handler has produced (status, headers, body: so no X-Search-Id is
\* added), the collector is never used, no background task is started and
\* nothing is sent to the store.
C3_PassThroughIsTransparent ==
    (/\ RecorderEntered
     /\ ctx.category # None
     /\ \/ ctx.category # Search
        \/ (sent.hdr[XSearchQuery] = << >> /\ sent.hdr[XSearchID] = << >>))
    => /\ w = seen.inner
       /\ rr = NewWriter
       /\ task = IdleTask
       /\ es = << >>

\* C3 witness: a Docs request that carries X-Search-Query has been served by the
\* terminal handler through the recorder.
C3_Witness ==
    /\ AllDone /\ RecorderEntered /\ ctx.category = Docs
    /\ sent.hdr[XSearchQuery] # << >>
    /\ seen.terminal = 1 /\ w = Serve(sent.up)

-----------------------------------------------------------------------------
(* C4 *)

\* C4 (as claimed): for a Search request that supplies a non-empty X-Search-Id
\* X, the response carries X-Search-Id: X and every record sent to the store
\* for the request is stored under X.  Stated for the requests of the
\* canonical chain that reach the terminal handler and whose X-Search-* values
\* all unescape, where it already fails.
C4_OriginalIDRoundtrip ==
    (/\ AllDone /\ Chain(sent.route) = CanonicalChain /\ ctx.category = Search
     /\ sent.hdr[XSearchID] # << >>
     /\ AllDecodable /\ seen.terminal = 1)
    => /\ XSearchID \in DOMAIN w.hdrs
       /\ w.hdrs[XSearchID] = sent.hdr[XSearchID]
       /\ \A i \in 1..Len(es) : es[i].id = sent.hdr[XSearchID]

\* C4 (amended): for a Search request that supplies a non-empty X-Search-Id X:
\* when every X-Search-* value of the request unescapes, the response carries
\* X-Search-Id: U with U the URL-unescaped X, every record sent to the store is
\* stored under U, and exactly one is sent when the collected body parses; when
\* some X-Search-* value does not unescape, the response is the inner handler's
\* own (the recorder adds no X-Search-Id) and nothing is sent to the store.
C4_IDRoundtripUnescaped ==
    (/\ AllDone /\ RecorderEntered /\ ctx.category = Search
     /\ sent.hdr[XSearchID] # << >>)
    => IF AllDecodable
       THEN /\ XSearchID \in DOMAIN w.hdrs
            /\ w.hdrs[XSearchID] = Unescaped(XSearchID)
            /\ \A i \in 1..Len(es) : es[i].id = Unescaped(XSearchID)
            /\ Len(es) = IF ParseBody(seen.inner.body, IsMSearch(sent.route)).ok THEN 1 ELSE 0
       ELSE /\ w = seen.inner
            /\ es = << >>

\* C4 witness: the caller sent X-Search-Id: a+b and the record went to the store
\* under "a b", the id the response carries.
C4_Witness ==
    /\ AllDone /\ ctx.category = Search
    /\ sent.hdr[XSearchID] = <<"a", "+", "b">>
    /\ Len(es) = 1 /\ es[1].id = <<"a", " ", "b">>
    /\ w.hdrs[XSearchID] = <<"a", " ", "b">>

-----------------------------------------------------------------------------
(* C5 *)

\* C5: the client write happens before the background task starts.  Whenever
\* the recordResponse task of a request exists (started, at any of its steps, or
\* finished), the real writer already holds the complete response: the copied
\* headers with X-Search-Id, the collector's status and the collector's body.
C5_ClientWriteBeforeTask ==
    task.pc # "none" =>
        /\ w.complete
        /\ w.code = rr.code
        /\ w.body = rr.body
        /\ w.hdrs = CopyHeaders(<< >>, rr.hdrs, task.docID)

\* C5 witness: the task has just been started, after the client write.
C5_Witness == task.pc = "started" /\ w.complete /\ w.code = 200

-----------------------------------------------------------------------------
(* C6 *)

\* C6: on the recording path the client sees the collector's response plus
\* X-Search-Id.  When the handler of a recorded request is done, the inner
\* handler's response is what the collector holds, the client's status and body
\* equal it, and the client's headers are the inner handler's headers with
\* X-Search-Id set to doc_id: the request's (unescaped) X-Search-Id when it is
\* non-empty, a minted id otherwise.
C6_RecordingResponse ==
    (rec.mode = "recording" /\ pc = "done")
    => /\ rr = seen.inner
       /\ w.code = seen.inner.code
       /\ w.body = seen.inner.body
       /\ XSearchID \in DOMAIN w.hdrs
       /\ \A k \in DOMAIN w.hdrs \ {XSearchID} : k \in DOMAIN seen.inner.hdrs
       /\ \A k \in DOMAIN seen.inner.hdrs \ {XSearchID} :
              k \in DOMAIN w.hdrs /\ w.hdrs[k] = seen.inner.hdrs[k]
       /\ IF sent.hdr[XSearchID] # << >>
          THEN w.hdrs[XSearchID] = Unescaped(XSearchID)
          ELSE w.hdrs[XSearchID] \in UUIDs

\* C6 witness: a new search answered by the upstream and returned with a minted id.
C6_Witness ==
    /\ rec.mode = "recording" /\ pc = "done" /\ seen.terminal = 1
    /\ sent.hdr[XSearchID] = << >>
    /\ w.code = 200 /\ w.body = sent.up.body /\ w.hdrs[XSearchID] \in UUIDs

-----------------------------------------------------------------------------
(* C7 *)

\* The request is an accepted new search on the recorder: Category Search,
\* X-Search-Query non-empty, X-Search-Id empty, headers that all unescape, an
\* IndexSet in the context, no gate rejected it and the upstream body parses.
AcceptedNewSearch ==
    /\ RecorderEntered /\ ctx.category = Search /\ ctx.indices # None
    /\ sent.hdr[XSearchQuery] # << >> /\ sent.hdr[XSearchID] = << >>
    /\ AllDecodable
    /\ sent.reject = None
    /\ ParseBody(sent.up.body, IsMSearch(sent.route)).ok

\* C7: an accepted new search is recorded exactly once.  At most one record is
\* ever sent to the store, and once the request and its task are over exactly
\* one has been: under the doc id the client received in X-Search-Id, with
\* indices equal to the context's IndexSet and search_query equal to the
\* request's (unescaped) X-Search-Query.
C7_NewSearchRecordedOnce ==
    AcceptedNewSearch =>
        /\ Len(es) <= 1
        /\ AllDone =>
             /\ Len(es) = 1
             /\ es[1].id = w.hdrs[XSearchID]
             /\ es[1].rec["indices"] = RouteIndices(sent.route)
             /\ es[1].rec["indices"] = ctx.indices
             /\ es[1].rec["search_query"] = Unescaped(XSearchQuery)

\* C7 witness: GET /twitter/_search with X-Search-Query: foo has been recorded.
C7_Witness ==
    /\ AcceptedNewSearch /\ AllDone
    /\ sent.route = "GET /twitter/_search"
    /\ sent.hdr[XSearchQuery] = <<"f", "o", "o">>
    /\ Len(es) = 1
    /\ es[1].rec["indices"] = << "twitter" >>
    /\ es[1].rec["search_query"] = <<"f", "o", "o">>

-----------------------------------------------------------------------------
(* C8 *)

\* C8 (as claimed): the record of a follow-up event (X-Search-Id non-empty)
\* holds none of indices, search_query, hits_in_response, total_hits and
\* timestamp, and no key other than ip, location, country, click,
\* click_position, conversion and custom_events (stated for the requests of the
\* canonical chain that reach the terminal handler).
C8_FollowUpRecordKeys ==
    \A i \in 1..Len(es) :
        (Chain(sent.route) = CanonicalChain /\ seen.terminal = 1 /\ task.searchID # << >>) =>
            /\ DOMAIN es[i].rec \cap InitialSearchKeys = {}
            /\ DOMAIN es[i].rec \subseteq
                 {"ip", "location", "country",
                  "click", "click_position", "conversion", "custom_events"}

-----------------------------------------------------------------------------
(* C9 *)

\* The caller sent X-Search-Id: abc, X-Search-Click: true, X-Search-Click-Position: 3.
IsClickEvent ==
    /\ sent.hdr[XSearchID] = <<"a", "b", "c">>
    /\ sent.hdr[XSearchClick] = <<"t", "r", "u", "e">>
    /\ sent.hdr[XSearchClickPosition] = <<"3">>

\* A store write under abc with click=true, click_position=3 and no initial search field.
IsClickWrite(x) ==
    /\ x.id = <<"a", "b", "c">>
    /\ "click" \in DOMAIN x.rec /\ x.rec["click"] = TRUE
    /\ "click_position" \in DOMAIN x.rec /\ x.rec["click_position"] = 3
    /\ DOMAIN x.rec \cap {"indices", "search_query", "hits_in_response"} = {}

\* C9 (as claimed): the follow-up click sent to POST /_analytics, accepted by
\* every gate and answered by the upstream with a body that parses, causes a
\* write under abc with click=true and click_position=3 and without the
\* initial search fields.
C9_OriginalAnalyticsRouteClick ==
    (/\ AllDone /\ IsClickEvent
     /\ sent.route = "POST /_analytics"
     /\ seen.terminal = 1
     /\ ParseBody(sent.up.body, FALSE).ok)
    => \E i \in 1..Len(es) : IsClickWrite(es[i])

\* C9 (amended): the follow-up click causes exactly one write, under abc with
\* click=true and click_position=3 and none of indices, search_query and
\* hits_in_response, when it is sent to a Search-category route whose chain
\* holds the analytics recorder, every X-Search-* value it carries unescapes
\* and the collected body parses; sent to POST /_analytics, whose classifier
\* sets the Category to Analytics, it causes no write to the analytics store.
C9_SearchRouteClick ==
    (AllDone /\ IsClickEvent) =>
        /\ (/\ RecorderEntered /\ ctx.category = Search
            /\ AllDecodable
            /\ ParseBody(seen.inner.body, IsMSearch(sent.route)).ok)
           => (Len(es) = 1 /\ IsClickWrite(es[1]))
        /\ sent.route = "POST /_analytics" => (ctx.category = Analytics /\ es = << >>)

\* C9 witness: the click sent to GET /twitter/_search has been written under abc.
C9_Witness ==
    /\ AllDone /\ IsClickEvent
    /\ sent.route = "GET /twitter/_search" /\ seen.terminal = 1
    /\ Len(es) = 1 /\ IsClickWrite(es[1])

-----------------------------------------------------------------------------
(* C10 *)

\* C10 (as claimed): on the canonical chain, every
\* X-Search-* value whose sent form unescapes reaches the terminal handler in
\* its once-unescaped form, also in a request in which another X-Search-* value
\* holds an invalid escape, whatever the order of the loop.
C10_InnerSeesUnescapedHeaders ==
    (Chain(sent.route) = CanonicalChain /\ seen.terminal = 1)
    => \A h \in XSearchHeaders :
          QueryUnescape(sent.hdr[h]).ok => seen.hdr[h] = Unescaped(h)

-----------------------------------------------------------------------------
(* C11 *)

\* The record field that X-Search-Click, X-Search-Click-Position and
\* X-Search-Conversion feed.
EventHeaders == {XSearchClick, XSearchClickPosition, XSearchConversion}

EventField(h) ==
    CASE h = XSearchClick         -> "click"
      [] h = XSearchClickPosition -> "click_position"
      [] h = XSearchConversion    -> "conversion"

\* The parse the header's type asks for: a bool, or an int for the position.
ParsedEvent(h, v) == IF h = XSearchClickPosition THEN Atoi(v) ELSE ParseBool(v)

\* C11: click, click_position and conversion are present if and only if the
\* header parses.  In every record sent to the store, each of the three fields
\* is present exactly when the (once-unescaped) header is non-empty and parses
\* as its type, and then holds the parsed value; and whatever these headers
\* hold, a recorded request whose body parses and whose new-search IndexSet is
\* present gets its one record stored and the client response is the inner
\* handler's status and body.
C11_EventFieldsIffParse ==
    /\ \A i \in 1..Len(es) : \A h \in EventHeaders :
          LET v == Unescaped(h)
              p == ParsedEvent(h, v)
          IN  /\ (EventField(h) \in DOMAIN es[i].rec) <=> (v # << >> /\ p.ok)
              /\ EventField(h) \in DOMAIN es[i].rec => es[i].rec[EventField(h)] = p.val
    /\ (/\ AllDone /\ rec.mode = "recording"
        /\ ParseBody(seen.inner.body, IsMSearch(sent.route)).ok
        /\ (rec.searchID # << >> \/ ctx.indices # None))
       => /\ Len(es) = 1
          /\ w.code = seen.inner.code
          /\ w.body = seen.inner.body

\* C11 witness: X-Search-Click: maybe and X-Search-Conversion: 1 on a search
\* answered 200; the record is stored with conversion and without click.
C11_Witness ==
    /\ AllDone /\ seen.terminal = 1 /\ w.code = 200
    /\ sent.hdr[XSearchClick] = <<"m", "a", "y", "b", "e">>
    /\ sent.hdr[XSearchConversion] = <<"1">>
    /\ Len(es) = 1
    /\ "click" \notin DOMAIN es[1].rec
    /\ "conversion" \in DOMAIN es[1].rec /\ es[1].rec["conversion"] = TRUE

-----------------------------------------------------------------------------
(* C12 *)

\* C12: a failure inside the background task aborts recording and is never
\* surfaced.  Once the task exists the client response stays the one written
\* before it was started; at most one store write is ever issued, always under
\* doc_id; when the collected body does not parse (as a response list for
\* _msearch, as a single response otherwise) or a new search finds no IndexSet
\* in the context, the task ends aborted with no store write; in every other
\* case it ends with exactly one.
C12_TaskFailureAborts ==
    task.pc # "none" =>
        LET fails == \/ ~ParseBody(rr.body, IsMSearch(sent.route)).ok
                     \/ (task.searchID = << >> /\ ctx.indices = None)
        IN  /\ w = [code |-> rr.code, hdrs |-> CopyHeaders(<< >>, rr.hdrs, task.docID),
                    body |-> rr.body, complete |-> TRUE]
            /\ Len(es) <= 1
            /\ \A i \in 1..Len(es) : es[i].id = task.docID
            /\ fails => (es = << >> /\ task.pc # "done" /\ task.pc # "built")
            /\ task.pc = "aborted" => fails
            /\ task.pc = "done" => Len(es) = 1

\* C12 witness: a new search recorded on a chain without the indices
\* classifier; its body parsed, the task aborted and nothing was written.
C12_Witness ==
    /\ task.pc = "aborted" /\ es = << >>
    /\ ParseBody(rr.body, IsMSearch(sent.route)).ok
    /\ task.searchID = << >> /\ ctx.indices = None
    /\ w.complete /\ w.code = 200

-----------------------------------------------------------------------------
(* The store plugin's index bootstrap: initPlugin *)

\* Number of initPlugin calls made against the cluster, in any interleaving.
NumCalls == 2

\* The cluster reports between 0 and MaxNodes nodes.
MaxNodes == 2

Callers == 1..NumCalls

\* No request is in flight: the request pipeline stands still while the
\* bootstrap or the store is looked at on its own.
NoRequest ==
    /\ sent = << >> /\ hdr = << >> /\ ctx = << >>
    /\ pc = "parked" /\ at = 0 /\ visited = {}
    /\ rec = << >> /\ w = NewWriter /\ rr = NewWriter
    /\ task = IdleTask /\ es = << >> /\ seen = << >>

\* A bootstrap that never believes the index exists.
IndexNeverExists(exists) == FALSE

\* if exists { ...; return es, nil }
IndexAlreadyExists(exists) == exists

\* settings := fmt.Sprintf(config, nodes, nodes-1): the node count fills the
\* first verb of the settings template, nodes-1 the number_of_replicas.
Settings(nodes) == [number_of_shards |-> nodes, number_of_replicas |-> nodes - 1]

NewCall == [pc |-> "idle", madeWhenExists |-> FALSE, nodes |-> 0, result |-> "none"]

InitBootstrap ==
    /\ NoRequest
    /\ store = << >> /\ jobs = << >>
    /\ \E pre \in BOOLEAN, n \in 0..MaxNodes :
         cluster = [exists |-> pre, pre |-> pre, nodes |-> n, requests |-> << >>, created |-> 0]
    /\ calls = [c \in Callers |-> NewCall]

\* initPlugin(indexName, config) is called.
InitPluginCall(c) ==
    /\ calls[c].pc = "idle"
    /\ calls' = [calls EXCEPT ![c].pc = "exists", ![c].madeWhenExists = cluster.exists]
    /\ UNCHANGED <<cluster, store, jobs>>
    /\ UNCHANGED request

\* IndexExists(indexName).Do(ctx): an error returns nil, err; an existing index
\* returns the store at once.
IndexExists(c) ==
    /\ calls[c].pc = "exists"
    /\ \E ok \in BOOLEAN :
         calls' = [calls EXCEPT ![c] =
                     IF ~ok THEN [@ EXCEPT !.pc = "returned", !.result = "error checking"]
                     ELSE IF IndexAlreadyExists(cluster.exists)
                          THEN [@ EXCEPT !.pc = "returned", !.result = "ok"]
                          ELSE [@ EXCEPT !.pc = "nodes"]]
    /\ UNCHANGED <<cluster, store, jobs>>
    /\ UNCHANGED request

\* util.GetTotalNodes(): an error returns nil, err.
GetTotalNodes(c) ==
    /\ calls[c].pc = "nodes"
    /\ \E ok \in BOOLEAN :
         calls' = [calls EXCEPT ![c] =
                     IF ok THEN [@ EXCEPT !.pc = "create", !.nodes = cluster.nodes]
                     ELSE [@ EXCEPT !.pc = "returned", !.result = "error nodes"]]
    /\ UNCHANGED <<cluster, store, jobs>>
    /\ UNCHANGED request

\* CreateIndex(indexName).Body(settings).Do(ctx): the cluster creates an index
\* only when none of that name exists; any error returns nil, err.
CreateIndex(c) ==
    /\ calls[c].pc = "create"
    /\ \E ok \in BOOLEAN :
         LET accepted == ok /\ ~cluster.exists
         IN  /\ cluster' = [cluster EXCEPT
                              !.requests = Append(@, [by |-> c, nodes |-> calls[c].nodes,
                                                      body |-> Settings(calls[c].nodes)]),
                              !.exists = @ \/ accepted,
                              !.created = @ + (IF accepted THEN 1 ELSE 0)]
             /\ calls' = [calls EXCEPT ![c].pc = "returned",
                                       ![c].result = IF accepted THEN "ok" ELSE "error creating"]
    /\ UNCHANGED <<store, jobs>>
    /\ UNCHANGED request

NextBootstrap ==
    \/ \E c \in Callers : InitPluginCall(c)
    \/ \E c \in Callers : IndexExists(c)
    \/ \E c \in Callers : GetTotalNodes(c)
    \/ \E c \in Callers : CreateIndex(c)

SpecInitPlugin == InitBootstrap /\ [][NextBootstrap]_vars

-----------------------------------------------------------------------------
(* C13 *)

\* Times the index came into being: before the calls, or by one of them.
Creations == cluster.created + (IF cluster.pre THEN 1 ELSE 0)

\* C13: index bootstrap is idempotent.  However many initPlugin calls run and
\* however they interleave, the index is created at most once, and exactly
\* once as soon as one call has returned the store; a call made when the index
\* already exists sends no create request and returns the store without error
\* (unless the existence check itself fails).
C13_BootstrapIdempotent ==
    /\ Creations <= 1
    /\ cluster.exists <=> Creations = 1
    /\ \A c \in Callers :
         /\ calls[c].result = "ok" => Creations = 1
         /\ (calls[c].pc # "idle" /\ calls[c].madeWhenExists) =>
              /\ \A i \in 1..Len(cluster.requests) : cluster.requests[i].by # c
              /\ calls[c].pc \in {"exists", "returned"}
              /\ calls[c].result \in {"none", "ok", "error checking"}

\* C13 witness: two calls have returned the store; the first created the
\* index, the second was made when it existed and sent no create request.
C13_Witness ==
    /\ ~cluster.pre /\ cluster.created = 1 /\ Len(cluster.requests) = 1
    /\ \A c \in {1, 2} : calls[c].pc = "returned" /\ calls[c].result = "ok"
    /\ \E c \in {1, 2} : calls[c].madeWhenExists

-----------------------------------------------------------------------------
(* C14 *)

Max(a, b) == IF a > b THEN a ELSE b

\* C14 (as claimed): every create request carries number_of_replicas equal to
\* max(0, nodes-1) for the node count the cluster reported, never a negative
\* number.
C14_ReplicasClamped ==
    \A i \in 1..Len(cluster.requests) :
        /\ cluster.requests[i].body.number_of_replicas = Max(0, cluster.requests[i].nodes - 1)
        /\ cluster.requests[i].body.number_of_replicas >= 0

-----------------------------------------------------------------------------
(* An initial search and a follow-up event that share one doc id *)

\* The store's write path: a shallow merge into the document already stored
\* under the id, the arriving write's value winning on a key both hold.
Merge(doc, record) == record @@ doc

Blank == [h \in XSearchHeaders |-> << >>]

Decodable(m) == \A h \in XSearchHeaders : QueryUnescape(m[h]).ok

\* r.Header as recordResponse reads it on the recording path: every value
\* once-unescaped.
UnescapedMap(m) == [h \in XSearchHeaders |-> QueryUnescape(m[h]).val]

\* The headers of an initial search: a query, perhaps filters, no X-Search-Id.
InitialSearches ==
    { m @@ Blank : m \in { x \in MapsOn({XSearchQuery, XSearchFilters}, 2) :
                              x[XSearchQuery] # << >> /\ Decodable(x @@ Blank) } }

\* The headers of a follow-up event attached to the doc id.
FollowUps(id) ==
    { (XSearchID :> id) @@ m @@ Blank :
        m \in { x \in MapsOn({XSearchClick, XSearchClickPosition, XSearchConversion,
                               XSearchCustomEvent}, 4) : Decodable(x @@ Blank) } }

\* The decoded single-search answers of the backend.
Answers ==
    { ParseBody(u.body, FALSE).resp :
        u \in { x \in Upstreams : x.body.kind = "json" /\ "took" \in DOMAIN x.body.doc } }

InitMerge ==
    /\ NoRequest
    /\ cluster = << >> /\ calls = << >>
    /\ store = [id \in UUIDs |-> << >>]
    /\ \E id \in UUIDs, h1 \in InitialSearches, a1 \in Answers, a2 \in Answers :
         \E h2 \in FollowUps(id) :
            jobs = [id |-> id, arrived |-> << >>,
                    initial  |-> [hdr |-> h1, resp |-> a1, record |-> << >>],
                    followUp |-> [hdr |-> h2, resp |-> a2, record |-> << >>]]

\* The initial search's recordResponse sends its record: searchID is empty and
\* the doc id is the minted one the client got back in X-Search-Id.
WriteInitial ==
    /\ \A i \in 1..Len(jobs.arrived) : jobs.arrived[i] # "initial"
    /\ \E locOK \in BOOLEAN, countryOK \in BOOLEAN :
         LET h      == UnescapedMap(jobs.initial.hdr)
             docID  == NewDocID(h[XSearchID], jobs.id)
             record == BuildRecord(h[XSearchID], jobs.initial.resp, << "twitter" >>, h,
                                   locOK, countryOK)
         IN  /\ store' = [store EXCEPT ![docID] = Merge(@, record)]
             /\ jobs' = [jobs EXCEPT !.arrived = Append(@, "initial"),
                                     !.initial.record = record]
    /\ UNCHANGED <<cluster, calls>>
    /\ UNCHANGED request

\* The follow-up's recordResponse sends its record under the X-Search-Id it carries.
WriteFollowUp ==
    /\ \A i \in 1..Len(jobs.arrived) : jobs.arrived[i] # "followUp"
    /\ \E locOK \in BOOLEAN, countryOK \in BOOLEAN, fresh \in UUIDs :
         LET h      == UnescapedMap(jobs.followUp.hdr)
             docID  == NewDocID(h[XSearchID], fresh)
             record == BuildRecord(h[XSearchID], jobs.followUp.resp, << "twitter" >>, h,
                                   locOK, countryOK)
         IN  /\ store' = [store EXCEPT ![docID] = Merge(@, record)]
             /\ jobs' = [jobs EXCEPT !.arrived = Append(@, "followUp"),
                                     !.followUp.record = record]
    /\ UNCHANGED <<cluster, calls>>
    /\ UNCHANGED request

NextMerge ==
    \/ WriteInitial
    \/ WriteFollowUp

SpecMerge == InitMerge /\ [][NextMerge]_vars

-----------------------------------------------------------------------------
(* C15 *)

FollowUpKeys == {"click", "click_position", "conversion", "custom_events"}

\* The document the claim expects once both writes arrived: every field of
\* the initial record with its value, plus the follow-up's event fields.
ExpectedDocument ==
    LET r1 == jobs.initial.record
        r2 == jobs.followUp.record
    IN  [k \in DOMAIN r1 \cup (DOMAIN r2 \cap FollowUpKeys) |->
            IF k \in DOMAIN r2 \cap FollowUpKeys THEN r2[k] ELSE r1[k]]

\* C15 (as claimed): once the initial search's write and the follow-up's write
\* have both reached the merging store, in either order, the document stored
\* under the shared doc id holds every field of the initial record with the
\* initial record's values (took and ip among them) plus the follow-up's
\* click, click_position, conversion and custom_events.  Stated for the runs
\* in which both geo-IP lookups had the same outcome for the two requests.
C15_MergeOrderIndependent ==
    (/\ Len(jobs.arrived) = 2
     /\ DOMAIN jobs.initial.record \cap {"location", "country"}
          = DOMAIN jobs.followUp.record \cap {"location", "country"})
    => store[jobs.id] = ExpectedDocument

-----------------------------------------------------------------------------
(* C16 *)

\* The role of a chain element.
Role(stage) ==
    CASE stage \in {"classifyCategory", "classify.Category"} -> "category classifier"
      [] stage = "classify.Op"                                 -> "operation classifier"
      [] stage = "classify.Indices"                            -> "indices classifier"
      [] stage \in {"logs.Recorder", "analytics.Recorder"}     -> "recorder"
      [] stage = "auth.BasicAuth"                              -> "authenticator"
      [] stage = "validate.Indices"                            -> "indices validator"
      [] stage = "validate.Operation"                          -> "operation validator"
      [] stage = "validate.Category"                           -> "category validator"
      [] OTHER                                                 -> "terminal handler"

FifoOrder ==
    << "category classifier", "operation classifier", "indices classifier", "recorder",
       "authenticator", "indices validator", "operation validator", "category validator",
       "terminal handler" >>

\* The roles of the stages that have run, in the order they ran.
RolesRun == [i \in 1..Len(seen.ran) |-> Role(seen.ran[i])]

\* C16: the chain applies its middlewares first-in-first-out.  For the chain
\* the plugin's list() builds and for the canonical chain of a search-data
\* route, the stages that have run are at every moment a prefix of: category
\* classifier, operation classifier, indices classifier, recorder,
\* authenticator, indices validator, operation validator, category validator,
\* terminal handler; and a request that reached the terminal handler ran all
\* of them, in exactly this order.
C16_StagesRunInFifoOrder ==
    Chain(sent.route) \in {list, CanonicalChain} =>
        /\ Len(RolesRun) <= Len(FifoOrder)
        /\ RolesRun = SubSeq(FifoOrder, 1, Len(RolesRun))
        /\ seen.terminal = 1 => RolesRun = FifoOrder

\* C16 witness: a request to the plugin's own route has reached the terminal
\* handler through the eight stages of list().
C16_Witness ==
    /\ sent.route = "POST /_analytics" /\ Chain(sent.route) = list
    /\ seen.terminal = 1 /\ pc = "done"
    /\ Len(seen.ran) = 9 /\ seen.ran[5] = "auth.BasicAuth" /\ seen.ran[9] = "terminal"

-----------------------------------------------------------------------------
(* C17 *)

\* C17: the background task is detached from the request.  Every store write
\* is issued with the background context, which is never cancelled; while the
\* task has a step left it can take it, whether or not the handler has
\* returned and the request's context has been cancelled; a task that ran to
\* its end has issued its write; and the client response stays the one written
\* before the task was started.
C17_TaskDetached ==
    /\ \A i \in 1..Len(es) : es[i].ctx = Background /\ ~es[i].ctx.cancelled
    /\ task.pc \in {"started", "parsed", "built"} => ENABLED (TaskParse \/ TaskBuild \/ TaskIndex)
    /\ task.pc = "done" => Len(es) = 1
    /\ task.pc # "none" =>
         w = [code |-> rr.code, hdrs |-> CopyHeaders(<< >>, rr.hdrs, task.docID),
              body |-> rr.body, complete |-> TRUE]

\* C17 witness: the write was issued after the handler had returned and the
\* request's context had been cancelled.
C17_Witness ==
    /\ pc = "done" /\ ctx.cancelled /\ task.pc = "done"
    /\ Len(es) = 1 /\ es[1].requestOver /\ es[1].ctx = Background

-----------------------------------------------------------------------------
(* C18 *)

\* C18: hits_in_response holds the first min(10, n) hits.  In every record of a
\* new search, hits_in_response holds exactly the first min(10, n) of the n
\* hits of the parsed response, in response order, each as id, type and the
\* marshalled source; it never holds more than 10; total_hits is the total the
\* response reports.
C18_TopTenHits ==
    \A i \in 1..Len(es) :
        LET resp == ParseBody(seen.inner.body, IsMSearch(sent.route)).resp
            n    == Len(resp.hits)
        IN  /\ task.searchID = << >> <=> "hits_in_response" \in DOMAIN es[i].rec
            /\ "hits_in_response" \in DOMAIN es[i].rec =>
                 LET got == es[i].rec["hits_in_response"]
                 IN  /\ Len(got) = Min(10, n)
                     /\ Len(got) <= 10
                     /\ \A j \in 1..Len(got) :
                          got[j] = [id |-> resp.hits[j].id, type |-> resp.hits[j].type,
                                    source |-> Marshal(resp.hits[j].source)]
                     /\ es[i].rec["total_hits"] = resp.total

\* C18 witness: the backend answered with more than 10 hits and a total of 40;
\* the record holds the first 10 and total_hits 40.
C18_Witness ==
    /\ AllDone /\ seen.terminal = 1 /\ sent.route = "GET /twitter/_search"
    /\ "hits" \in DOMAIN sent.up.body.doc
    /\ Len(sent.up.body.doc["hits"]["hits"]) > 10
    /\ sent.hdr[XSearchID] = << >>
    /\ Len(es) = 1
    /\ Len(es[1].rec["hits_in_response"]) = 10
    /\ es[1].rec["hits_in_response"][10].id = "10"
    /\ es[1].rec["total_hits"] = 40

-----------------------------------------------------------------------------
(* C19 *)

\* The first sub-response of the _msearch answer the backend sent, the zero
\* response when the list is empty.
FirstSubResponse ==
    LET responses == Field(sent.up.body.doc, "responses", << >>)
    IN  IF Len(responses) > 0 THEN DecodeResponse(responses[1]) ELSE ZeroResponse

\* C19: for an _msearch request the record is built from the first
\* sub-response only.  took, and for a new search hits_in_response and
\* total_hits, are those of the first sub-response whatever the length of the
\* list; when the list is empty the record is still written, with took 0,
\* total_hits 0 and no hits.
C19_MSearchFirstResponse ==
    (IsMSearch(sent.route) /\ seen.terminal = 1 /\ sent.up.body.kind = "json") =>
        /\ \A i \in 1..Len(es) :
              /\ es[i].rec["took"] = FirstSubResponse.took
              /\ task.searchID = << >> =>
                   /\ es[i].rec["total_hits"] = FirstSubResponse.total
                   /\ es[i].rec["hits_in_response"] = HitsInResponse(FirstSubResponse)
        /\ (AllDone /\ rec.mode = "recording") => Len(es) = 1
        /\ (AllDone /\ rec.mode = "recording"
            /\ Field(sent.up.body.doc, "responses", << >>) = << >>) =>
                /\ es[1].rec["took"] = 0
                /\ task.searchID = << >> =>
                     /\ es[1].rec["total_hits"] = 0
                     /\ es[1].rec["hits_in_response"] = << >>

\* C19 witness: a new _msearch search answered with an empty response list has
\* been recorded with took 0, total_hits 0 and no hits.
C19_Witness ==
    /\ AllDone /\ sent.route = "POST /_msearch" /\ seen.terminal = 1
    /\ sent.up.body = JSON("responses" :> << >>)
    /\ sent.hdr[XSearchID] = << >>
    /\ Len(es) = 1
    /\ es[1].rec["took"] = 0 /\ es[1].rec["total_hits"] = 0
    /\ es[1].rec["hits_in_response"] = << >>

-----------------------------------------------------------------------------
(* C20 *)

\* The request is one the recorder records: Category Search, values that all
\* unescape, and a query or an id.
TakesRecordingPath ==
    /\ ctx.category = Search
    /\ AllDecodable
    /\ (Unescaped(XSearchQuery) # << >> \/ Unescaped(XSearchID) # << >>)

\* C20: the recorder invokes its inner handler at most once and starts at most
\* one task.  No stage runs twice; when the recorder's handler is over it has
\* called the inner handler zero times if the context held no Category and
\* exactly once otherwise (pass-through, unescape error, recording), and it
\* has started one task on the recording path and none on any other.
C20_InnerCalledOnce ==
    /\ seen.innerCalls <= 1
    /\ seen.spawns <= 1
    /\ \A i, j \in 1..Len(seen.ran) : i # j => seen.ran[i] # seen.ran[j]
    /\ seen.spawns = 1 => (seen.innerCalls = 1 /\ TakesRecordingPath)
    /\ (RecorderEntered /\ pc = "done") =>
         IF ctx.category = None
         THEN seen.innerCalls = 0 /\ seen.spawns = 0 /\ seen.terminal = 0
         ELSE /\ seen.innerCalls = 1
              /\ seen.spawns = IF TakesRecordingPath THEN 1 ELSE 0

\* C20 witness: a value failed to unescape; the inner handler ran once, down to
\* the terminal handler, and no task was started.
C20_Witness ==
    /\ pc = "done" /\ rec.mode = "decodeError"
    /\ seen.innerCalls = 1 /\ seen.spawns = 0 /\ seen.terminal = 1

=============================================================================
